---- MODULE Spec2Model ----
(***************************************************************************)
(* Model of the news scraper (src/scraper.py) and of its watchdog          *)
(* (src/watchdog.py).                                                      *)
(*                                                                         *)
(* Spec    : the crawl process.  One process start after another runs      *)
(*           scrape_articles against a fixed web; the process can be       *)
(*           terminated at any step (watchdog.py:46-47) and driver calls   *)
(*           can fault.  The backing file scraped_articles.json outlives   *)
(*           the processes.                                                *)
(* SpecW   : the watchdog loop monitor_scraper with its child reduced to   *)
(*           what the watchdog observes: alive or exited, and the          *)
(*           modification time of logs/scraper.log.                        *)
(* SpecL   : SpecW with a child that can hang, and fair steps.             *)
(* SpecU   : clean_title and load_full_page applied to drawn inputs.       *)
(***************************************************************************)
EXTENDS Integers, Sequences, FiniteSets, TLC

(***************************************************************************)
(* Bounds of the model.                                                    *)
(***************************************************************************)
MaxRuns == 2        \* process starts of the crawler
MaxCands == 2       \* <article> elements on the listing page
MaxFaults == 1      \* injected driver faults in one run of the crawler
MaxHeight == 2      \* distinct values of document.body.scrollHeight
MaxTime == 330      \* seconds of watchdog time that are explored
MaxChildren == 3    \* scraper processes the watchdog starts
MaxTitle == 4       \* characters of a title given to clean_title
MaxMeasure == 4     \* scrollHeight values a page reports to load_full_page

(***************************************************************************)
(* State.                                                                  *)
(***************************************************************************)
VARIABLES
    file,           \* scraped_articles.json
    listing,        \* the <article> elements of the listing page
    pc,             \* where the crawl process is
    exc,            \* what ended the process, "" while it runs
    run,            \* process starts so far
    articles_data,  \* scrape_articles, line 151
    existing_urls,  \* scrape_articles, line 151 and 226
    last_height,    \* load_full_page
    i,              \* scrape_articles, candidate index
    link_url,       \* scrape_articles, line 172
    art,            \* title, full_content, image_url, publish_date, author
    save_data,      \* save_article, articles_data
    tabs,           \* driver.window_handles, each by the page it shows
    focus,          \* index of the current window, 0 once it was closed
    saves,          \* history: article_id -> first record, its run, link URL
    faults_now,     \* history: the faults injected in this run
    prev,           \* history: how the previous run ended
    w_now,          \* the clock: seconds since the watchdog started
    zone,           \* offset of local time, and whether it has changed
    log,            \* logs/scraper.log: does it exist, and its mtime
    wpc,            \* monitor_scraper: the line it stands before
    last_modified,  \* monitor_scraper, line 41
    scraper_process,\* monitor_scraper: pid of the child it holds, 0 before
    signalled,      \* pid of the child with a SIGTERM not yet acted on, or 0
    procs,          \* the children started so far, pid -> state
    started,        \* history: when the child it holds was started
    tick,           \* history: what the last pass of the loop saw and did
    raw_title,      \* clean_title: title
    cleaned_title,  \* clean_title: what it returned, None before the call
    heights,        \* load_full_page: the scrollHeight values the page reports
    measurements    \* load_full_page: heights read when it returned, or None

crawl_vars ==
    <<file, listing, pc, exc, run, articles_data, existing_urls, last_height,
      i, link_url, art, save_data, tabs, focus, saves, faults_now,
      prev>>

watch_vars ==
    <<w_now, zone, log, wpc, last_modified, scraper_process, signalled, procs,
      started, tick>>

unit_vars == <<raw_title, cleaned_title, heights, measurements>>

vars == <<crawl_vars, watch_vars, unit_vars>>

(***************************************************************************)
(* Text.  A Python str is a sequence of characters.  A character is        *)
(* written as itself when it is printable ASCII or one of \t \n \r \f, and *)
(* by its code point, "U+00E9", otherwise.                                 *)
(***************************************************************************)

\* the str whose characters are those of the ASCII string s
Text(s) == [p \in 1..Len(s) |-> SubSeq(s, p, p)]

\* re.IGNORECASE: the upper-case ASCII letter that c matches, c itself when
\* there is none
Upper(c) ==
    CASE c = "a" -> "A" [] c = "b" -> "B" [] c = "c" -> "C" [] c = "d" -> "D"
      [] c = "e" -> "E" [] c = "f" -> "F" [] c = "g" -> "G" [] c = "h" -> "H"
      [] c = "i" -> "I" [] c = "j" -> "J" [] c = "k" -> "K" [] c = "l" -> "L"
      [] c = "m" -> "M" [] c = "n" -> "N" [] c = "o" -> "O" [] c = "p" -> "P"
      [] c = "q" -> "Q" [] c = "r" -> "R" [] c = "s" -> "S" [] c = "t" -> "T"
      [] c = "u" -> "U" [] c = "v" -> "V" [] c = "w" -> "W" [] c = "x" -> "X"
      [] c = "y" -> "Y" [] c = "z" -> "Z"
      [] c = "U+0130" -> "I" [] c = "U+0131" -> "I"
      [] c = "U+017F" -> "S" [] c = "U+212A" -> "K"
      [] OTHER -> c

\* s[p - 1]
CharAt(s, p) == s[p]

\* s[p - 1:]
From(s, p) == SubSeq(s, p, Len(s))

UpperStr(s) == [p \in 1..Len(s) |-> Upper(s[p])]

\* the characters for which str.isspace() holds
Whitespace ==
    {" ", "\t", "\n", "\r", "\f", "U+000B", "U+001C", "U+001D", "U+001E",
     "U+001F", "U+0085", "U+00A0", "U+1680", "U+2000", "U+2001", "U+2002",
     "U+2003", "U+2004", "U+2005", "U+2006", "U+2007", "U+2008", "U+2009",
     "U+200A", "U+2028", "U+2029", "U+202F", "U+205F", "U+3000"}

\* [0-9]
Digits == {"0", "1", "2", "3", "4", "5", "6", "7", "8", "9"}

\* str.strip(): leading and trailing whitespace removed
RECURSIVE LStrip(_)
LStrip(s) ==
    IF s # <<>> /\ CharAt(s, 1) \in Whitespace THEN LStrip(From(s, 2)) ELSE s

RECURSIVE RStrip(_)
RStrip(s) ==
    IF s # <<>> /\ CharAt(s, Len(s)) \in Whitespace
    THEN RStrip(SubSeq(s, 1, Len(s) - 1))
    ELSE s

Strip(s) == LStrip(RStrip(s))

\* does json.dump(ensure_ascii=False) into a UTF-8 file write c as ASCII
\* bytes: the ASCII characters, the controls among them as \uXXXX escapes
Ascii(c) ==
    \/ Len(c) = 1
    \/ /\ Len(c) = 6
       /\ SubSeq(c, 1, 4) = "U+00"
       /\ SubSeq(c, 5, 5) \in {"0", "1", "2", "3", "4", "5", "6", "7"}

NonAscii(s) == \E p \in 1..Len(s) : ~Ascii(s[p])

(***************************************************************************)
(* clean_title: re.split(r'[-|:]', title)[0].strip()                       *)
(***************************************************************************)
Separators == {"-", "|", ":"}

RECURSIVE FirstSegment(_)
FirstSegment(s) ==
    IF s = <<>> \/ CharAt(s, 1) \in Separators
    THEN <<>>
    ELSE <<CharAt(s, 1)>> \o FirstSegment(From(s, 2))

\* mutant: the first segment is returned as it is cut
clean_title_no_strip(t) == FirstSegment(t)

clean_title(t) == Strip(FirstSegment(t))

(***************************************************************************)
(* clean_unwanted_text.  A pattern is a literal prefix, then optionally    *)
(* [0-9]+ and a literal suffix; matching ignores case.                     *)
(***************************************************************************)
Patterns ==
    << [pre |-> Text("SKIP TO CONTENT"), digits |-> FALSE, post |-> <<>>],
       [pre |-> Text("SKIP TO SITE INDEX"), digits |-> FALSE, post |-> <<>>],
       [pre |-> Text("SECTION NAVIGATION"), digits |-> FALSE, post |-> <<>>],
       [pre |-> Text("SUBSCRIBE FOR $"), digits |-> TRUE,
        post |-> Text("/WEEK")],
       [pre |-> Text("LOG IN"), digits |-> FALSE, post |-> <<>>],
       [pre |-> Text("SEARCH"), digits |-> FALSE, post |-> <<>>] >>

\* does the literal lit (upper case) occur in s at position p, ignoring case
LitAt(lit, s, p) ==
    /\ p + Len(lit) - 1 <= Len(s)
    /\ UpperStr(SubSeq(s, p, p + Len(lit) - 1)) = lit

\* number of consecutive digits of s from position p on
RECURSIVE DigitRun(_, _)
DigitRun(s, p) ==
    IF p <= Len(s) /\ CharAt(s, p) \in Digits THEN 1 + DigitRun(s, p + 1) ELSE 0

\* length of the match of pat in s that starts at p; 0 when there is none
MatchLen(pat, s, p) ==
    IF ~LitAt(pat.pre, s, p) THEN 0
    ELSE IF ~pat.digits THEN Len(pat.pre)
    ELSE LET d == DigitRun(s, p + Len(pat.pre))
         IN  IF d > 0 /\ LitAt(pat.post, s, p + Len(pat.pre) + d)
             THEN Len(pat.pre) + d + Len(pat.post)
             ELSE 0

\* re.sub(pattern, '', s, flags=re.IGNORECASE): leftmost matches, one pass
RECURSIVE ReSubFrom(_, _, _)
ReSubFrom(pat, s, p) ==
    IF p > Len(s) THEN <<>>
    ELSE LET n == MatchLen(pat, s, p)
         IN  IF n > 0 THEN ReSubFrom(pat, s, p + n)
             ELSE <<CharAt(s, p)>> \o ReSubFrom(pat, s, p + 1)

RECURSIVE CleanFrom(_, _)
CleanFrom(k, content) ==
    IF k > Len(Patterns) THEN content
    ELSE CleanFrom(k + 1, Strip(ReSubFrom(Patterns[k], content, 1)))

clean_unwanted_text(content) == CleanFrom(1, content)

(***************************************************************************)
(* The web the crawler meets.  A page is what the driver reports of it:    *)
(* driver.title, the text of the first element matching                    *)
(* //article | //div[contains(@class, 'content')], the text of <body>, the *)
(* first link of each <article> element, the src of the first <img>, the   *)
(* datetime of <time> and the text of the author element.                  *)
(***************************************************************************)
\* what stands for the text or attribute of an element the page lacks
NoElement == <<"<no such element>">>

NoLink == "<article without a link>"

ListingPage ==
    "https://news.google.com/topics/CAAqIQgKIhtDQkFTRGdvSUwyMHZNREpxT1hvU0FtVnVLQUFQAQ?hl=en-US&gl=US&ceid=US%3Aen"

BlankPage == "data:,"

U1 == "https://a.example/1"

U2 == "https://a.example/2"

U3 == "https://a.example/3"

U4 == "https://a.example/4"

Urls == {U1, U2, U3, U4}

Page(u) ==
    CASE u = U1 ->
           [title |-> Text("Big Story - Example News"),
            main |-> Text("SKIP TO CONTENT\nCaf") \o <<"U+00E9">>
                        \o Text(" opens"),
            body |-> Text("LOG IN\nSKIP TO CONTENT\nCaf") \o <<"U+00E9">>
                        \o Text(" opens\nSEARCH"),
            arts |-> <<U2>>,
            img |-> Text("https://a.example/1.png"),
            time |-> NoElement,
            author |-> NoElement]
      [] u = U2 ->
           [title |-> Text("Sign in | Example News"),
            main |-> Text("Log in \n SEARCH"),
            body |-> Text("Example News\nLog in \n SEARCH"),
            arts |-> <<>>,
            img |-> NoElement,
            time |-> NoElement,
            author |-> NoElement]
      [] u = U3 ->
           [title |-> Text("No Separator Headline"),
            main |-> Text("Markets rallied"),
            body |-> Text("Markets rallied"),
            arts |-> <<NoLink>>,
            img |-> NoElement,
            time |-> Text("2024-05-01T10:00:00Z"),
            author |-> Text("By A. Writer")]
      [] OTHER ->
           [title |-> Text("Video: clip"),
            main |-> NoElement,
            body |-> Text("Watch the clip"),
            arts |-> <<>>,
            img |-> Text("https://a.example/4.png"),
            time |-> NoElement,
            author |-> NoElement]

\* hashlib.md5(s.encode()).hexdigest() of the URLs above
md5_hexdigest(s) ==
    CASE s = U1 -> "d184f307538b5cdcc3a4c54414449ea6"
      [] s = U2 -> "28fdf7ce5be4d1009f0b06d8fd96a362"
      [] s = U3 -> "c8210f84dbd1b4954b4cebb00f2cf07d"
      [] s = U4 -> "2b296351ac1d85910631a0378e6db6ae"

\* mutant: str(hash(url)), which Python salts anew in every process
hash_url_salted(url) == md5_hexdigest(url) \o "/" \o ToString(run)

hash_url(url) == md5_hexdigest(url)

\* the listing's <article> elements, each given by its first link
Elements == Urls \cup {NoLink}

RECURSIVE SeqsUpTo(_, _)
SeqsUpTo(S, n) ==
    IF n = 0 THEN {<<>>}
    ELSE LET shorter == SeqsUpTo(S, n - 1)
         IN  shorter \cup {Append(q, e) : q \in shorter, e \in S}

Listings == SeqsUpTo(Elements, MaxCands)

(***************************************************************************)
(* The backing file scraped_articles.json.                                 *)
(*   missing      no such file                                             *)
(*   malformed    text that json.load refuses (empty or cut short)         *)
(*   undecodable  bytes that are not UTF-8 (cut inside a character)        *)
(*   legacy       {"status": .., "totalResults": .., "articles": [..]}     *)
(*   dict         {article_id: record, ...}, as save_article writes it     *)
(***************************************************************************)
EmptyData == [k \in {} |-> k]

NoFile == [kind |-> "missing", data |-> EmptyData]

MalformedFile == [kind |-> "malformed", data |-> EmptyData]

UndecodableFile == [kind |-> "undecodable", data |-> EmptyData]

LegacyFile == [kind |-> "legacy", data |-> EmptyData]

DictFile(d) == [kind |-> "dict", data |-> d]

load_existing_data(f) ==
    CASE f.kind = "missing" ->
           [exc |-> "", data |-> EmptyData, urls |-> {}]
      [] f.kind = "malformed" ->
           [exc |-> "", data |-> EmptyData, urls |-> {}]
      [] f.kind = "undecodable" ->
           [exc |-> "UnicodeDecodeError", data |-> EmptyData, urls |-> {}]
      [] f.kind = "legacy" ->
           [exc |-> "TypeError", data |-> EmptyData, urls |-> {}]
      [] OTHER ->
           [exc |-> "", data |-> f.data,
            urls |-> {f.data[k].url : k \in DOMAIN f.data}]

\* the number of entries of the store
StoreSize(f) == Cardinality(DOMAIN load_existing_data(f).data)

\* save_article, lines 271-282: the record and its place in the dictionary
article_record(article_id, a) ==
    [url |-> article_id,
     title |-> a.title,
     description |-> <<>>,
     content |-> a.content,
     image_url |-> a.image_url,
     publish_date |-> a.publish_date,
     author |-> a.author]

\* the characters of a text in a row, as a dictionary key
RECURSIVE Join(_)
Join(t) == IF t = <<>> THEN "" ELSE t[1] \o Join(Tail(t))

\* mutant: the record is filed under its publish date
put_article_by_date(d, article_id, a) ==
    [k \in (DOMAIN d) \cup {Join(a.publish_date)} |->
        IF k = Join(a.publish_date) THEN article_record(article_id, a)
        ELSE d[k]]

put_article(d, article_id, a) ==
    [k \in (DOMAIN d) \cup {article_id} |->
        IF k = article_id THEN article_record(article_id, a)
        ELSE d[k]]

\* does json.dump(..., ensure_ascii=False) write a multi-byte character:
\* the keys and the "url" fields are hexadecimal digests, every other field
\* is text of the page
DumpNonAscii(d) ==
    \E k \in DOMAIN d :
        \/ NonAscii(d[k].title) \/ NonAscii(d[k].description)
        \/ NonAscii(d[k].content) \/ NonAscii(d[k].image_url)
        \/ NonAscii(d[k].publish_date) \/ NonAscii(d[k].author)

\* what a write that is cut between open(.., "w") and the end of json.dump
\* leaves behind
CutFiles(d) ==
    {MalformedFile} \cup (IF DumpNonAscii(d) THEN {UndecodableFile} ELSE {})

(***************************************************************************)
(* Values of the state.                                                    *)
(***************************************************************************)
NoArt ==
    [title |-> <<>>, content |-> <<>>, image_url |-> <<>>,
     publish_date |-> <<>>, author |-> <<>>]

Stopped == {"off", "done", "crashed", "killed"}

\* positions inside the try block of the candidate loop, lines 169-230
InTry == {"open", "switch", "extract", "save_open", "save_dump", "close",
          "switch_back"}

\* positions inside the try block at which a driver call can fault: "head"
\* stands for find_element and get_attribute of lines 171-172
DriverCalls == {"head", "open", "switch", "extract", "close", "switch_back"}

Running == {"load", "get", "popups", "scroll", "scrolling", "head"} \cup InTry

\* datetime.now().strftime("%Y-%m-%d %H:%M:%S"): later runs read later times
NowString == Text("2024-06-01 12:00:0" \o ToString(run))

Heights == 1..MaxHeight

CrawlIdle ==
    /\ pc = "off"
    /\ exc = ""
    /\ run = 0
    /\ articles_data = EmptyData
    /\ existing_urls = {}
    /\ last_height = 0
    /\ i = 0
    /\ link_url = ""
    /\ art = NoArt
    /\ save_data = EmptyData
    /\ tabs = <<>>
    /\ focus = 0
    /\ saves = EmptyData
    /\ faults_now = {}
    /\ prev = [done |-> FALSE, faults |-> {}, size |-> 0]

CrawlInit ==
    /\ file \in {NoFile, LegacyFile}
    /\ listing \in Listings
    /\ CrawlIdle

\* the process is gone: its locals and its browser session with it.  The
\* index reached and the faults met are kept of a run that returned, for the
\* comparison of one complete run with the next.
ProcessEnds(how, why) ==
    /\ pc' = how
    /\ exc' = why
    /\ articles_data' = EmptyData
    /\ existing_urls' = {}
    /\ last_height' = 0
    /\ i' = IF how = "done" THEN i ELSE 0
    /\ link_url' = ""
    /\ art' = NoArt
    /\ save_data' = EmptyData
    /\ tabs' = <<>>
    /\ focus' = 0
    /\ faults_now' = IF how = "done" THEN faults_now ELSE {}

\* except Exception, lines 232-235: log, then the next index
Handler ==
    /\ pc' = "head"
    /\ i' = i + 1
    /\ link_url' = ""
    /\ art' = NoArt
    /\ save_data' = EmptyData

(***************************************************************************)
(* The crawl process.  Locals that are dead (written again before they are *)
(* read) are reset when a candidate is left, so that equal states are      *)
(* equal.                                                                  *)
(***************************************************************************)

\* watchdog.py start_scraper; scraper.py __main__: setup_driver()
Start ==
    /\ pc \in Stopped
    /\ run < MaxRuns
    /\ run' = run + 1
    /\ pc' = "load"
    /\ exc' = ""
    /\ i' = 0
    /\ tabs' = <<BlankPage>>
    /\ focus' = 1
    /\ prev' = IF pc = "done"
               THEN [done |-> TRUE, faults |-> faults_now,
                     size |-> StoreSize(file)]
               ELSE [done |-> FALSE, faults |-> {}, size |-> 0]
    /\ faults_now' = {}
    /\ UNCHANGED <<file, listing, articles_data, existing_urls, last_height,
                   link_url, art, save_data, saves>>
    /\ UNCHANGED <<watch_vars, unit_vars>>

\* scrape_articles, line 151
Load ==
    /\ pc = "load"
    /\ LET r == load_existing_data(file)
       IN  IF r.exc # ""
           THEN /\ ProcessEnds("crashed", r.exc)
           ELSE /\ articles_data' = r.data
                /\ existing_urls' = r.urls
                /\ pc' = "get"
                /\ UNCHANGED <<exc, last_height, i, link_url, art, save_data,
                               tabs, focus, faults_now>>
    /\ UNCHANGED <<file, listing, run, saves, prev>>
    /\ UNCHANGED <<watch_vars, unit_vars>>

\* scrape_articles, lines 153-155: driver.get(url)
Navigate ==
    /\ pc = "get"
    /\ tabs' = [tabs EXCEPT ![focus] = ListingPage]
    /\ pc' = "popups"
    /\ UNCHANGED <<file, listing, exc, run, articles_data, existing_urls,
                   last_height, i, link_url, art, save_data, focus,
                   saves, faults_now, prev>>
    /\ UNCHANGED <<watch_vars, unit_vars>>

\* close_popups: each of the three waits times out, or finds its button and
\* the click succeeds, or finds it and the click raises
PopupOutcomes == {"timeout", "clicked", "click_fault"}

\* the exception close_popups lets through, "" when it returns
close_popups(o) ==
    IF \E k \in 1..3 : o[k] = "click_fault"
    THEN "WebDriverException"
    ELSE ""

\* scrape_articles, line 157
ClosePopups ==
    /\ pc = "popups"
    /\ \E o \in [1..3 -> PopupOutcomes] :
          IF close_popups(o) # ""
          THEN /\ ProcessEnds("crashed", close_popups(o))
          ELSE /\ pc' = "scroll"
               /\ UNCHANGED <<exc, articles_data, existing_urls, last_height,
                              i, link_url, art, save_data, tabs, focus,
                              faults_now>>
    /\ UNCHANGED <<file, listing, run, saves, prev>>
    /\ UNCHANGED <<watch_vars, unit_vars>>

\* load_full_page, line 69
ScrollBegin ==
    /\ pc = "scroll"
    /\ \E h \in Heights : last_height' = h
    /\ pc' = "scrolling"
    /\ UNCHANGED <<file, listing, exc, run, articles_data, existing_urls, i,
                   link_url, art, save_data, tabs, focus, saves,
                   faults_now, prev>>
    /\ UNCHANGED <<watch_vars, unit_vars>>

\* mutant: if new_height <= last_height
HeightSettled_NotGreater(new_height, last) == new_height <= last

\* load_full_page, line 74: if new_height == last_height
HeightSettled(new_height, last) == new_height = last

\* load_full_page, lines 70-77, from the k-th value the page reports on: the
\* number of values read when the loop breaks, 0 when hs ends before it does
RECURSIVE ScrollLoop(_, _, _)
ScrollLoop(hs, k, last) ==
    IF k > Len(hs) THEN 0
    ELSE IF HeightSettled(hs[k], last) THEN k
    ELSE ScrollLoop(hs, k + 1, hs[k])

\* load_full_page on a page that reports the heights hs, one for each
\* execute_script("return document.body.scrollHeight")
load_full_page(hs) == ScrollLoop(hs, 2, hs[1])

\* load_full_page, lines 70-77: one pass of the loop
ScrollStep ==
    /\ pc = "scrolling"
    /\ \E new_height \in Heights :
          IF HeightSettled(new_height, last_height)
          THEN /\ pc' = "head"
               /\ last_height' = 0
          ELSE /\ pc' = "scrolling"
               /\ last_height' = new_height
    /\ UNCHANGED <<file, listing, exc, run, articles_data, existing_urls, i,
                   link_url, art, save_data, tabs, focus, saves,
                   faults_now, prev>>
    /\ UNCHANGED <<watch_vars, unit_vars>>

\* driver.find_elements(By.XPATH, '//article') on the current window
PageArticles(p) ==
    IF p = ListingPage THEN listing
    ELSE IF p = BlankPage THEN <<>>
    ELSE Page(p).arts

\* scrape_articles, lines 163-169: there is a candidate i, the try block is
\* entered
InCandidate == focus # 0 /\ i < Len(PageArticles(tabs[focus]))

\* scrape_articles, lines 163-178: the loop head up to the duplicate check
LoopHead ==
    /\ pc = "head"
    /\ IF focus = 0
       THEN \* find_elements on a closed window, outside the try
            /\ ProcessEnds("crashed", "NoSuchWindowException")
       ELSE LET articles == PageArticles(tabs[focus])
            IN  IF i >= Len(articles)
                THEN /\ ProcessEnds("done", "")
                ELSE IF articles[i + 1] = NoLink
                THEN \* find_element(By.TAG_NAME, 'a') raises
                     /\ Handler
                     /\ UNCHANGED <<exc, articles_data, existing_urls,
                                    last_height, tabs, focus, faults_now>>
                ELSE IF articles[i + 1] \in existing_urls
                THEN /\ i' = i + 1
                     /\ UNCHANGED <<pc, exc, articles_data, existing_urls,
                                    last_height, link_url, art, save_data,
                                    tabs, focus, faults_now>>
                ELSE /\ link_url' = articles[i + 1]
                     /\ pc' = "open"
                     /\ UNCHANGED <<exc, articles_data, existing_urls,
                                    last_height, i, art, save_data, tabs,
                                    focus, faults_now>>
    /\ UNCHANGED <<file, listing, run, saves, prev>>
    /\ UNCHANGED <<watch_vars, unit_vars>>

\* scrape_articles, line 181: window.open(link_url, '_blank')
OpenTab ==
    /\ pc = "open"
    /\ tabs' = Append(tabs, link_url)
    /\ pc' = "switch"
    /\ UNCHANGED <<file, listing, exc, run, articles_data, existing_urls,
                   last_height, i, link_url, art, save_data, focus,
                   saves, faults_now, prev>>
    /\ UNCHANGED <<watch_vars, unit_vars>>

\* scrape_articles, lines 182-183: switch_to.window(window_handles[1])
SwitchTab ==
    /\ pc = "switch"
    /\ focus' = 2
    /\ pc' = "extract"
    /\ UNCHANGED <<file, listing, exc, run, articles_data, existing_urls,
                   last_height, i, link_url, art, save_data, tabs,
                   saves, faults_now, prev>>
    /\ UNCHANGED <<watch_vars, unit_vars>>

\* WebDriverWait(driver, 10).until(presence_of_element_located(...)): the
\* element's text, or TimeoutException when no element matches
extract_main_content(pg) ==
    IF pg.main = NoElement
    THEN [exc |-> "TimeoutException", text |-> <<>>]
    ELSE [exc |-> "", text |-> clean_unwanted_text(pg.main)]

\* mutant: if full_content is None
NoContent_IsNone(full_content) == full_content = NoElement

\* scrape_articles, line 192: if not full_content
NoContent(full_content) == full_content = <<>>

\* scrape_articles, lines 199-216
extract_meta(pg, title, full_content) ==
    [title |-> title,
     content |-> full_content,
     image_url |-> IF pg.img = NoElement THEN <<>> ELSE pg.img,
     publish_date |-> IF pg.time = NoElement THEN NowString ELSE pg.time,
     author |-> IF pg.author = NoElement THEN Text("Unknown")
                ELSE pg.author]

\* scrape_articles, lines 186-216, on the page of the current window
Extract ==
    /\ pc = "extract"
    /\ LET pg == Page(tabs[focus])
           r == extract_main_content(pg)
       IN  IF r.exc # ""
           THEN /\ Handler
                /\ UNCHANGED <<exc, articles_data, existing_urls, last_height,
                               tabs, focus>>
           ELSE IF NoContent(r.text)
           THEN /\ pc' = "close"
                /\ UNCHANGED <<exc, articles_data, existing_urls, last_height,
                               i, link_url, art, save_data, tabs, focus>>
           ELSE /\ art' = extract_meta(pg, clean_title(pg.title), r.text)
                /\ pc' = "save_open"
                /\ UNCHANGED <<exc, articles_data, existing_urls, last_height,
                               i, link_url, save_data, tabs, focus>>
    /\ UNCHANGED <<file, listing, run, saves, faults_now, prev>>
    /\ UNCHANGED <<watch_vars, unit_vars>>

\* save_article, lines 262-285: load, add the record, open the file for
\* writing, which empties it
SaveOpen ==
    /\ pc = "save_open"
    /\ LET r == load_existing_data(file)
       IN  IF r.exc # ""
           THEN /\ Handler
                /\ UNCHANGED file
           ELSE /\ save_data' = put_article(r.data, hash_url(link_url), art)
                /\ file' = MalformedFile
                /\ pc' = "save_dump"
                /\ UNCHANGED <<i, link_url, art>>
    /\ UNCHANGED <<listing, exc, run, articles_data, existing_urls,
                   last_height, tabs, focus, saves, faults_now, prev>>
    /\ UNCHANGED <<watch_vars, unit_vars>>

\* history: for each key written, the first record stored under it, the run
\* that stored it and the link URL of the latest save under it
Remember(article_id) ==
    [k \in (DOMAIN saves) \cup (DOMAIN save_data) |->
        IF k \in DOMAIN saves
        THEN [saves[k] EXCEPT !.url = IF k = article_id THEN link_url ELSE @]
        ELSE [first |-> save_data[k], run |-> run, url |-> link_url]]

\* save_article, line 286, and scrape_articles, lines 223-226
SaveDump ==
    /\ pc = "save_dump"
    /\ file' = DictFile(save_data)
    /\ existing_urls' = existing_urls \cup {link_url}
    /\ saves' = Remember(hash_url(link_url))
    /\ save_data' = EmptyData
    /\ art' = NoArt
    /\ pc' = "close"
    /\ UNCHANGED <<listing, exc, run, articles_data, last_height, i, link_url,
                   tabs, focus, faults_now, prev>>
    /\ UNCHANGED <<watch_vars, unit_vars>>

\* window_handles once the window at index k is closed
WithoutTab(k) == [j \in 1..(Len(tabs) - 1) |-> IF j < k THEN tabs[j] ELSE tabs[j + 1]]

\* scrape_articles, lines 194 and 229: driver.close()
CloseTab ==
    /\ pc = "close"
    /\ tabs' = WithoutTab(focus)
    /\ focus' = 0
    /\ pc' = "switch_back"
    /\ UNCHANGED <<file, listing, exc, run, articles_data, existing_urls,
                   last_height, i, link_url, art, save_data, saves,
                   faults_now, prev>>
    /\ UNCHANGED <<watch_vars, unit_vars>>

\* scrape_articles, lines 195-197 and 230-235
SwitchBack ==
    /\ pc = "switch_back"
    /\ focus' = 1
    /\ i' = i + 1
    /\ link_url' = ""
    /\ pc' = "head"
    /\ UNCHANGED <<file, listing, exc, run, articles_data, existing_urls,
                   last_height, art, save_data, tabs, saves,
                   faults_now, prev>>
    /\ UNCHANGED <<watch_vars, unit_vars>>

\* a driver call inside the try raises (stale element, driver error):
\* except Exception, lines 232-235
Fault ==
    /\ pc \in DriverCalls
    /\ pc = "head" => InCandidate
    /\ Cardinality(faults_now) < MaxFaults
    /\ faults_now' = faults_now \cup {<<i, pc>>}
    /\ Handler
    /\ UNCHANGED <<file, listing, exc, run, articles_data, existing_urls,
                   last_height, tabs, focus, saves, prev>>
    /\ UNCHANGED <<watch_vars, unit_vars>>

\* watchdog.py, lines 46-47: terminate() and wait().  SIGTERM ends the
\* Python process where it stands; a write in progress is cut.
Kill ==
    /\ pc \in Running
    /\ file' \in (IF pc = "save_dump" THEN CutFiles(save_data) ELSE {file})
    /\ ProcessEnds("killed", "SIGTERM")
    /\ UNCHANGED <<listing, run, saves, prev>>
    /\ UNCHANGED <<watch_vars, unit_vars>>

Next ==
    \/ Start
    \/ Load
    \/ Navigate
    \/ ClosePopups
    \/ ScrollBegin
    \/ ScrollStep
    \/ LoopHead
    \/ OpenTab
    \/ SwitchTab
    \/ Extract
    \/ SaveOpen
    \/ SaveDump
    \/ CloseTab
    \/ SwitchBack
    \/ Fault
    \/ Kill

NoLog == [exists |-> FALSE, mtime |-> 0, off |-> 0]

NoTick ==
    [acted |-> FALSE, now |-> 0, log |-> NoLog, child |-> 0,
     child_started |-> 0, exited0 |-> FALSE, exited |-> FALSE,
     terminated |-> FALSE, waited |-> FALSE, starts |-> 0, new_child |-> 0]

WatchIdle ==
    /\ w_now = 0
    /\ zone = [off |-> 0, changed |-> FALSE]
    /\ log = NoLog
    /\ wpc = "sleep"
    /\ last_modified = -1
    /\ scraper_process = 0
    /\ signalled = 0
    /\ procs = <<>>
    /\ started = 0
    /\ tick = NoTick

\* Python's None, where a str is expected
None == <<"<None>">>

\* no call of clean_title or load_full_page is under way
UnitIdle ==
    /\ raw_title = <<>>
    /\ cleaned_title = None
    /\ heights = <<>>
    /\ measurements = -1

Init == CrawlInit /\ WatchIdle /\ UnitIdle

Spec == Init /\ [][Next]_vars

(***************************************************************************)
(* The watchdog, src/watchdog.py, and what it can observe of its child, a  *)
(* scraper process.  The child is "booting" until the module-level code of *)
(* scraper.py has moved the old log away (lines 40-43), "rotated" until it *)
(* has created the new one (line 46), then "running" and writing to the    *)
(* log now and then, at last "exited".  A child that is "hung" writes      *)
(* nothing more and does not exit by itself.                               *)
(*                                                                         *)
(* The clock counts whole seconds.  The watchdog and the log's time stamp  *)
(* are read as naive local times (datetime.now(), datetime.fromtimestamp): *)
(* the clock plus the offset of the zone in force at that instant.  The    *)
(* zone can change once, by DstShift, forward or back.  An event between   *)
(* two passes of the loop carries the time of the earlier pass.            *)
(***************************************************************************)
TIMEOUT == 300

PollInterval == 10

\* the hour by which local time jumps when daylight saving begins or ends
DstShift == 3600

\* what last_log_time() raises when the file is gone at line 27
FileNotFoundError == -2

\* last_log_time(): os.path.exists (line 26) said existed; l is the log at
\* os.path.getmtime (line 27).  datetime.fromtimestamp(mtime) is a naive
\* local time; None is written -1
last_log_time(existed, l) ==
    IF ~existed THEN -1
    ELSE IF ~l.exists THEN FileNotFoundError
    ELSE l.mtime + l.off

\* mutant: poll() is asked only once the log is there
monitor_pass_needs_log(last, now, exited) ==
    IF last # -1 /\ now - last > TIMEOUT
    THEN [terminate |-> TRUE, wait |-> TRUE, starts |-> 1]
    ELSE IF last # -1 /\ exited
    THEN [terminate |-> FALSE, wait |-> FALSE, starts |-> 1]
    ELSE [terminate |-> FALSE, wait |-> FALSE, starts |-> 0]

\* monitor_scraper, lines 44-52: what one pass of the loop decides
monitor_pass(last, now, exited) ==
    IF last # -1 /\ now - last > TIMEOUT
    THEN [terminate |-> TRUE, wait |-> TRUE, starts |-> 1]
    ELSE IF exited
    THEN [terminate |-> FALSE, wait |-> FALSE, starts |-> 1]
    ELSE [terminate |-> FALSE, wait |-> FALSE, starts |-> 0]

\* start_scraper appended k times: new children, booting
Started(ps, k) == IF k = 0 THEN ps ELSE Append(ps, "booting")

\* SIGTERM acts on the child: the process is gone
Terminated(ps, pid) == [ps EXCEPT ![pid] = "exited"]

\* mutant: wait() that returns while the child is still there
Waited_NoWait(ps, pid) == TRUE

\* scraper_process.wait() returns: the child is gone
Waited(ps, pid) == ps[pid] = "exited"

\* the log as the process that writes it now leaves it
Written == [exists |-> TRUE, mtime |-> w_now, off |-> zone.off]

WatchInit ==
    /\ w_now = 0
    /\ zone \in {[off |-> 0, changed |-> FALSE],
                 [off |-> DstShift, changed |-> FALSE]}
    /\ log \in {NoLog, Written}
    /\ wpc = "sleep"
    /\ last_modified = -1
    /\ scraper_process = 0
    /\ signalled = 0
    /\ procs = <<>>
    /\ started = 0
    /\ tick = NoTick

\* monitor_scraper, line 37
WatchStart ==
    /\ scraper_process = 0
    /\ procs' = Started(procs, 1)
    /\ scraper_process' = Len(procs')
    /\ started' = w_now
    /\ UNCHANGED <<w_now, zone, log, wpc, last_modified, signalled, tick>>
    /\ UNCHANGED <<crawl_vars, unit_vars>>

\* monitor_scraper, line 40, and last_log_time, line 26: sleep, then
\* os.path.exists
TickExists ==
    /\ wpc = "sleep"
    /\ scraper_process # 0
    /\ w_now + PollInterval <= MaxTime
    /\ w_now' = w_now + PollInterval
    /\ last_modified' = -1
    /\ wpc' = IF log.exists THEN "getmtime" ELSE "act"
    /\ tick' = [acted |-> FALSE, now |-> w_now', log |-> NoLog,
                child |-> scraper_process, child_started |-> started,
                exited0 |-> procs[scraper_process] = "exited",
                exited |-> FALSE, terminated |-> FALSE, waited |-> FALSE,
                starts |-> 0, new_child |-> scraper_process]
    /\ UNCHANGED <<zone, log, scraper_process, signalled, procs, started>>
    /\ UNCHANGED <<crawl_vars, unit_vars>>

\* last_log_time, line 27: os.path.getmtime of a file that line 26 found.
\* FileNotFoundError is caught nowhere (line 57 catches KeyboardInterrupt):
\* the watchdog ends, the child stays
TickGetmtime ==
    /\ wpc = "getmtime"
    /\ LET t == last_log_time(TRUE, log)
       IN  IF t = FileNotFoundError
           THEN /\ wpc' = "raised"
                /\ UNCHANGED <<last_modified, tick>>
           ELSE /\ wpc' = "act"
                /\ last_modified' = t
                /\ tick' = [tick EXCEPT !.log = log]
    /\ UNCHANGED <<w_now, zone, log, scraper_process, signalled, procs,
                   started>>
    /\ UNCHANGED <<crawl_vars, unit_vars>>

\* the pass recorded in tick is over
PassDone(t) == [t EXCEPT !.acted = TRUE]

\* monitor_scraper, lines 44-46 and 50-52: decide on what line 41 read;
\* terminate() sends SIGTERM to a child that has not been found exited
TickAct ==
    /\ wpc = "act"
    /\ LET exited == procs[scraper_process] = "exited"
           d == monitor_pass(last_modified, w_now + zone.off, exited)
           seen == [tick EXCEPT !.exited = exited,
                                !.terminated = d.terminate]
       IN  /\ d.starts > 0 => Len(procs) < MaxChildren
           /\ IF d.terminate
              THEN /\ signalled' = IF exited THEN 0 ELSE scraper_process
                   /\ wpc' = "wait"
                   /\ tick' = seen
                   /\ UNCHANGED <<scraper_process, procs, started>>
              ELSE /\ procs' = Started(procs, d.starts)
                   /\ scraper_process' =
                         IF d.starts > 0 THEN Len(procs') ELSE scraper_process
                   /\ started' = IF d.starts > 0 THEN w_now ELSE started
                   /\ wpc' = "sleep"
                   /\ tick' = PassDone([seen EXCEPT
                                          !.starts = d.starts,
                                          !.new_child = scraper_process'])
                   /\ UNCHANGED signalled
    /\ last_modified' = -1
    /\ UNCHANGED <<w_now, zone, log>>
    /\ UNCHANGED <<crawl_vars, unit_vars>>

\* monitor_scraper, line 47: wait() blocks until the child is gone
TickWait ==
    /\ wpc = "wait"
    /\ Waited(procs, scraper_process)
    /\ wpc' = "start"
    /\ signalled' = 0
    /\ tick' = [tick EXCEPT !.waited = TRUE]
    /\ UNCHANGED <<w_now, zone, log, last_modified, scraper_process, procs,
                   started>>
    /\ UNCHANGED <<crawl_vars, unit_vars>>

\* monitor_scraper, line 48
TickStart ==
    /\ wpc = "start"
    /\ procs' = Started(procs, 1)
    /\ scraper_process' = Len(procs')
    /\ started' = w_now
    /\ wpc' = "sleep"
    /\ tick' = PassDone([tick EXCEPT !.starts = 1,
                                     !.new_child = scraper_process'])
    /\ UNCHANGED <<w_now, zone, log, last_modified, signalled>>
    /\ UNCHANGED <<crawl_vars, unit_vars>>

\* the child that was sent SIGTERM is ended by it (no handler is installed
\* in scraper.py); until then it goes on as before
ChildTerminated ==
    /\ signalled # 0
    /\ procs[signalled] # "exited"
    /\ procs' = Terminated(procs, signalled)
    /\ signalled' = 0
    /\ UNCHANGED <<w_now, zone, log, wpc, last_modified, scraper_process,
                   started, tick>>
    /\ UNCHANGED <<crawl_vars, unit_vars>>

\* scraper.py, lines 40-43: the old log is renamed to previous_scrape.log
ChildRotate ==
    /\ \E pid \in DOMAIN procs :
          /\ procs[pid] = "booting"
          /\ procs' = [procs EXCEPT ![pid] = "rotated"]
    /\ log' = NoLog
    /\ UNCHANGED <<w_now, zone, wpc, last_modified, scraper_process,
                   signalled, started, tick>>
    /\ UNCHANGED <<crawl_vars, unit_vars>>

\* scraper.py, lines 46-50: logging.basicConfig opens the new log
ChildOpenLog ==
    /\ \E pid \in DOMAIN procs :
          /\ procs[pid] = "rotated"
          /\ procs' = [procs EXCEPT ![pid] = "running"]
    /\ log' = Written
    /\ UNCHANGED <<w_now, zone, wpc, last_modified, scraper_process,
                   signalled, started, tick>>
    /\ UNCHANGED <<crawl_vars, unit_vars>>

\* scraper.py, logging.info / logging.error: a line is written to the log
ChildLog ==
    /\ \E pid \in DOMAIN procs : procs[pid] = "running"
    /\ log # Written
    /\ log' = Written
    /\ UNCHANGED <<w_now, zone, wpc, last_modified, scraper_process,
                   signalled, procs, started, tick>>
    /\ UNCHANGED <<crawl_vars, unit_vars>>

\* scraper.py, __main__: the process returns or dies of an exception
ChildExit ==
    /\ \E pid \in DOMAIN procs :
          /\ procs[pid] \in {"booting", "rotated", "running"}
          /\ procs' = [procs EXCEPT ![pid] = "exited"]
          /\ signalled' = IF pid = signalled THEN 0 ELSE signalled
    /\ UNCHANGED <<w_now, zone, log, wpc, last_modified, scraper_process,
                   started, tick>>
    /\ UNCHANGED <<crawl_vars, unit_vars>>

\* daylight saving begins or ends: local time jumps
ZoneChange ==
    /\ ~zone.changed
    /\ zone' = [off |-> IF zone.off = 0 THEN DstShift ELSE 0,
                changed |-> TRUE]
    /\ UNCHANGED <<w_now, log, wpc, last_modified, scraper_process, signalled,
                   procs, started, tick>>
    /\ UNCHANGED <<crawl_vars, unit_vars>>

NextW ==
    \/ WatchStart
    \/ TickExists
    \/ TickGetmtime
    \/ TickAct
    \/ TickWait
    \/ TickStart
    \/ ChildTerminated
    \/ ChildRotate
    \/ ChildOpenLog
    \/ ChildLog
    \/ ChildExit
    \/ ZoneChange

InitW ==
    /\ file = NoFile
    /\ listing = <<>>
    /\ CrawlIdle
    /\ WatchInit
    /\ UnitIdle

SpecW == InitW /\ [][NextW]_vars

(***************************************************************************)
(* The watchdog with a child that can hang, in a zone that does not change *)
(* within the time explored.  The loop of monitor_scraper has no exit and  *)
(* nothing in it blocks but sleep(10) and wait() on a process that was     *)
(* sent SIGTERM: a step of the loop that can be made is made, and a        *)
(* SIGTERM that was sent is delivered.  A hang is let begin only so early  *)
(* that the passes which follow it within the time explored span more than *)
(* TIMEOUT, and only in a child that can still be replaced.                *)
(***************************************************************************)

\* the scraper blocks for good: in its start-up before the log is there, or
\* later in a driver call or in the unbounded loop of load_full_page
ChildHang ==
    /\ w_now + TIMEOUT + 2 * PollInterval <= MaxTime
    /\ Len(procs) < MaxChildren
    /\ \E pid \in DOMAIN procs :
          /\ procs[pid] \in {"booting", "rotated", "running"}
          /\ procs' = [procs EXCEPT ![pid] = "hung"]
    /\ UNCHANGED <<w_now, zone, log, wpc, last_modified, scraper_process,
                   signalled, started, tick>>
    /\ UNCHANGED <<crawl_vars, unit_vars>>

NextL ==
    \/ WatchStart
    \/ TickExists
    \/ TickGetmtime
    \/ TickAct
    \/ TickWait
    \/ TickStart
    \/ ChildTerminated
    \/ ChildRotate
    \/ ChildOpenLog
    \/ ChildLog
    \/ ChildExit
    \/ ChildHang

SpecL ==
    /\ InitW
    /\ [][NextL]_vars
    /\ WF_vars(TickExists)
    /\ WF_vars(TickGetmtime)
    /\ WF_vars(TickAct)
    /\ WF_vars(TickWait)
    /\ WF_vars(TickStart)
    /\ WF_vars(ChildTerminated)

(***************************************************************************)
(* clean_title and load_full_page on their own: a title, or the heights a  *)
(* page reports, is drawn and the function is applied to it.               *)
(***************************************************************************)
TitleChars == {"B", " ", "\t", "U+00A0", "-", "|", ":"}

\* driver.title: short texts over TitleChars, and the titles of the pages
Titles == SeqsUpTo(TitleChars, MaxTitle) \cup {Page(u).title : u \in Urls}

\* the values of document.body.scrollHeight, the first read at line 69
HeightSeqs == SeqsUpTo(Heights, MaxMeasure) \ {<<>>}

InitU ==
    /\ file = NoFile
    /\ listing = <<>>
    /\ CrawlIdle
    /\ WatchIdle
    /\ cleaned_title = None
    /\ measurements = -1
    /\ \/ raw_title \in Titles /\ heights = <<>>
       \/ raw_title = <<>> /\ heights \in HeightSeqs

\* scrape_articles, line 186: title = clean_title(driver.title)
CleanTitle ==
    /\ heights = <<>>
    /\ cleaned_title = None
    /\ cleaned_title' = clean_title(raw_title)
    /\ UNCHANGED <<raw_title, heights, measurements>>
    /\ UNCHANGED <<crawl_vars, watch_vars>>

\* scrape_articles, line 159: load_full_page(driver)
LoadFullPage ==
    /\ heights # <<>>
    /\ measurements = -1
    /\ measurements' = load_full_page(heights)
    /\ UNCHANGED <<raw_title, cleaned_title, heights>>
    /\ UNCHANGED <<crawl_vars, watch_vars>>

NextU ==
    \/ CleanTitle
    \/ LoadFullPage

SpecU == InitU /\ [][NextU]_vars

(***************************************************************************)
(* Properties of the crawl process, checked under Spec.                    *)
(***************************************************************************)

\* the link URLs persisted by save_article in an earlier run
SavedBefore == {saves[k].url : k \in {j \in DOMAIN saves : saves[j].run < run}}

\* C1: in a run, once the store is loaded, the key set holds every link URL
\* that an earlier run persisted, and no candidate with such a link URL gets
\* past the duplicate check (no tab is opened and nothing is saved for it).
C1_PersistedAreSkipped ==
    /\ pc \in Running \ {"load"} => SavedBefore \subseteq existing_urls
    /\ pc \in InTry => link_url \notin SavedBefore

\* C2: a record stored under a key is never replaced or changed: whatever
\* the file holds under a key is the first record that was stored under it.
C2_NeverOverwritten ==
    \A k \in (DOMAIN file.data) \cap (DOMAIN saves) :
        file.data[k] = saves[k].first

\* C3: no two records of the store share the identity they carry (the "url"
\* field, which holds the hash) or the link URL they were saved for.
C3_Uniqueness ==
    \A k1, k2 \in DOMAIN file.data :
        (\/ file.data[k1].url = file.data[k2].url
         \/ saves[k1].url = saves[k2].url) => k1 = k2

\* C3 witness: after a restart the store holds two records, one of them
\* saved again by the later run.
C3_Witness ==
    /\ run >= 2
    /\ Cardinality(DOMAIN file.data) >= 2
    /\ \E k \in DOMAIN file.data : file.data[k] # saves[k].first

\* C4: a run that returns after a run that returned, with the same faults
\* met at the same places, leaves the store with as many entries as it
\* found.
C4_Idempotence ==
    (pc = "done" /\ prev.done /\ prev.faults = faults_now)
        => StoreSize(file) = prev.size

\* C4 witness: the second of two such runs has returned, both met a fault at
\* the same place, and the store is not empty.
C4_Witness ==
    /\ pc = "done"
    /\ prev.done
    /\ prev.faults = faults_now
    /\ faults_now # {}
    /\ prev.size > 0

\* C5: the store never holds a record with an empty body, and save_article
\* is entered only with a non-empty scrubbed body.
C5_NoEmptyContent ==
    /\ \A k \in DOMAIN file.data : file.data[k].content # <<>>
    /\ \A k \in DOMAIN save_data : save_data[k].content # <<>>
    /\ pc \in {"save_open", "save_dump"} => art.content # <<>>

\* C5 witness: a page whose body the scrub reduced to nothing was left
\* unsaved while the store holds records.
C5_Witness ==
    /\ pc = "close"
    /\ link_url = U2
    /\ Page(U2).main # <<>>
    /\ file.kind = "dict"
    /\ hash_url(U2) \notin DOMAIN file.data

\* C6: after a restart, the loaded store holds every article whose
\* save_article call had completed.
C6_CrashKeepsCompleted ==
    pc = "get" => (DOMAIN saves) \subseteq (DOMAIN articles_data)

\* C7: on a missing file and on a truncated or malformed one,
\* load_existing_data returns the empty state and does not raise.
C7_LoadResilient ==
    file.kind \in {"missing", "malformed", "undecodable"}
        => load_existing_data(file) = [exc |-> "", data |-> EmptyData, urls |-> {}]

\* C8: a fault inside a candidate's processing does not end the run: the run
\* returns only after the last candidate of the listing, and no such fault
\* makes scrape_articles raise.
C8_FaultDoesNotEndRun ==
    /\ pc = "done" => i >= Len(listing)
    /\ pc = "crashed" => exc # "NoSuchWindowException"

\* C9: at the start of every candidate iteration exactly one tab is open and
\* the focus is on the listing tab.
C9_SingleListingTab ==
    pc = "head" => (Len(tabs) = 1 /\ focus = 1 /\ tabs[focus] = ListingPage)

\* C12: extract_main_content does not raise: it returns the scrubbed text of
\* the main content element when the page has one, and the scrubbed text of
\* <body> when the wait for that element times out.
C12_BodyFallback ==
    pc = "extract" =>
        LET pg == Page(tabs[focus])
            r == extract_main_content(pg)
        IN  /\ r.exc = ""
            /\ r.text = clean_unwanted_text(IF pg.main # NoElement
                                             THEN pg.main ELSE pg.body)

\* C13: whatever the three attempts of close_popups meet, close_popups
\* returns and the run goes on to load_full_page.
C13_PopupsNeverFail ==
    /\ pc = "popups" =>
          \A o \in [1..3 -> PopupOutcomes] : close_popups(o) = ""
    /\ pc = "crashed" => exc # "WebDriverException"

\* C15: a backing file of either shape is loaded without an exception, and
\* no run ends at the load of line 151 on such a file.
C15_EitherShapeLoads ==
    /\ (pc = "load" /\ file.kind \in {"legacy", "dict"})
          => load_existing_data(file).exc = ""
    /\ pc = "crashed" => exc # "TypeError"

\* C18: the window that is switched to and read is the one opened for the
\* candidate's link URL, and each record, in the making and in the file,
\* holds the cleaned title and the scrubbed body of the page of the link URL
\* whose key it is stored under.
C18_RecordOfItsOwnPage ==
    /\ pc = "extract" => tabs[focus] = link_url
    /\ pc \in {"save_open", "save_dump"} =>
          /\ art.title = clean_title(Page(link_url).title)
          /\ art.content = clean_unwanted_text(Page(link_url).main)
    /\ \A k \in DOMAIN file.data :
          \E u \in Urls :
              /\ k = hash_url(u)
              /\ file.data[k].title = clean_title(Page(u).title)
              /\ file.data[k].content = clean_unwanted_text(Page(u).main)

(***************************************************************************)
(* Properties of the watchdog, checked under SpecW and SpecL.              *)
(***************************************************************************)

\* the pass recorded in tick found the log older than the threshold
StaleTick ==
    tick.acted /\ tick.log.exists /\ tick.now - tick.log.mtime > TIMEOUT

\* C10: on a pass that finds the progress log older than 300 s the watchdog
\* terminates the child it holds, waits for it, and starts exactly one new
\* child, which it holds from then on.
C10_RestartOnStaleness ==
    StaleTick =>
        /\ tick.terminated
        /\ tick.waited
        /\ tick.starts = 1
        /\ tick.new_child # tick.child
        /\ Len(procs) >= tick.new_child
        /\ \A pid \in 1..(tick.new_child - 1) : procs[pid] = "exited"

\* C11: a pass that finds the child it holds exited starts exactly one new
\* child and holds it from then on, whether the log is fresh, stale or
\* absent at that pass; and a pass that begins when the child has exited
\* does not end in an exception of last_log_time.
C11_RestartOnExit ==
    /\ (tick.acted /\ tick.exited) =>
          /\ tick.starts = 1
          /\ tick.new_child = tick.child + 1
          /\ Len(procs) = tick.new_child
          /\ scraper_process = tick.new_child
    /\ (tick.acted /\ tick.exited0) => tick.exited
    /\ tick.exited0 => wpc # "raised"

\* C11 witness: a child that was itself a replacement was found exited by a
\* pass that also found the log stale.
C11_Witness ==
    /\ tick.exited
    /\ StaleTick
    /\ tick.starts = 1
    /\ tick.child >= 2

\* the children that are alive
Alive == {pid \in DOMAIN procs : procs[pid] # "exited"}

\* C20: at most one child is alive, and it is the one the watchdog holds;
\* a pass starts a child only when the one it held is gone.
C20_SingleWriter ==
    /\ Alive \subseteq {scraper_process}
    /\ tick.starts > 0 => (tick.exited \/ (tick.terminated /\ tick.waited))
    /\ tick.starts > 0 => procs[tick.child] = "exited"

\* C20 witness: a pass terminated a child that was alive and started its
\* replacement, which is alive now.
C20_Witness ==
    /\ tick.terminated
    /\ ~tick.exited
    /\ tick.starts = 1
    /\ Alive = {tick.new_child}

\* C19: a pass terminates the child it holds only if that child was started
\* more than TIMEOUT seconds before the pass.  (The log's time is then the
\* child's own last write, or the child wrote nothing since its start.)
C19_OwnStaleness ==
    tick.terminated => tick.now - tick.child_started > TIMEOUT

\* the child pid is the one the watchdog holds, and it has hung
HeldHung(pid) ==
    scraper_process = pid /\ pid \in DOMAIN procs /\ procs[pid] = "hung"

\* the child pid is gone and the watchdog holds another
Replaced(pid) ==
    scraper_process # pid /\ pid \in DOMAIN procs /\ procs[pid] = "exited"

\* C16: a child that hangs is in the end terminated and replaced, whatever
\* the log's state.
C16_HungChildRecovered ==
    \A pid \in 1..MaxChildren : HeldHung(pid) ~> Replaced(pid)

(***************************************************************************)
(* Properties of clean_title and load_full_page, checked under SpecU.      *)
(***************************************************************************)

\* the part of t before its first separator, all of t when it has none
BeforeFirstSeparator(t) ==
    LET P == {p \in 1..Len(t) : CharAt(t, p) \in Separators}
    IN  IF P = {} THEN t
        ELSE SubSeq(t, 1, (CHOOSE p \in P : \A q \in P : p <= q) - 1)

\* r is seg without its leading and trailing whitespace
IsTrimOf(r, seg) ==
    \E a \in 1..(Len(seg) + 1) : \E b \in (a - 1)..Len(seg) :
        /\ r = SubSeq(seg, a, b)
        /\ \A p \in 1..(a - 1) : CharAt(seg, p) \in Whitespace
        /\ \A p \in (b + 1)..Len(seg) : CharAt(seg, p) \in Whitespace
        /\ a <= b => /\ CharAt(seg, a) \notin Whitespace
                     /\ CharAt(seg, b) \notin Whitespace

\* C14: clean_title returns the part of the title before the first of the
\* separators "-", "|", ":" (the whole title when it has none) with leading
\* and trailing whitespace removed.
C14_TitleCleaning ==
    cleaned_title # None =>
        /\ IsTrimOf(cleaned_title, BeforeFirstSeparator(raw_title))
        /\ raw_title = Text("Big Story - Example News")
              => cleaned_title = Text("Big Story")
        /\ raw_title = Text("No Separator Headline")
              => cleaned_title = raw_title

\* C14 witness: a title with whitespace around its first segment and a
\* separator after it was cleaned.
C14_Witness ==
    /\ raw_title = <<"U+00A0", "B", "\t", "|">>
    /\ cleaned_title = <<"B">>

\* the measurements of hs that the test cmp finds settled against the one
\* before
SettledAt(hs, cmp(_, _)) == {k \in 2..Len(hs) : cmp(hs[k], hs[k - 1])}

\* the least element of a set of numbers, 0 for the empty set
FirstOf(S) == IF S = {} THEN 0 ELSE CHOOSE k \in S : \A j \in S : k <= j

NotGreater(x, y) == x <= y

Equal(x, y) == x = y

\* C17, as claimed: load_full_page returns at the first measurement that is
\* not greater than the one before it, and runs on while there is none.
C17_StopsWhenNotGreater ==
    measurements # -1 => measurements = FirstOf(SettledAt(heights, NotGreater))

\* C17, amended: load_full_page returns at the first measurement that is
\* equal to the one before it, and runs on while there is none.
C17_StopsWhenEqual ==
    measurements # -1 => measurements = FirstOf(SettledAt(heights, Equal))

\* C17 witness: the height shrank, the loop went on, and it returned at the
\* next measurement, which was equal to the one before.
C17_Witness ==
    /\ measurements = 3
    /\ heights[2] < heights[1]
    /\ heights[3] = heights[2]

====
